---- MODULE Spec2Model ----
(***************************************************************************)
(* Model of src/main.rs: the OpenRGB client that samples CPU and memory    *)
(* utilisation and renders them on the LEDs of the connected controllers.  *)
(*                                                                         *)
(* f32 fractions are modelled as exact rationals [num, den]; within the    *)
(* bounds below every product and quotient the program forms is either     *)
(* exact in f32 or far from a rounding tie of lerp_color.                  *)
(***************************************************************************)
EXTENDS Integers, Sequences, FiniteSets, TLC

\* ---------------------------------------------------------------- bounds
\* number of loop iterations explored
MaxPushes == 6
\* largest controller count the lighting service reports
MaxControllers == 2
\* small LED counts a controller reports (besides the Commander Core's 54)
MaxLeds == 1
\* largest total memory (in abstract units) the memory provider reports
MaxMem == 2
\* largest denominator of a value handed to the color functions
MaxDen == 3
\* largest LED count handed to the layout functions
MaxSize == 5

\* ------------------------------------------------------ program constants
SAMPLE_TIME == 5
SAMPLE_RATE == 500
\* (SAMPLE_TIME * (1.0 + 1.0 / SAMPLE_RATE as f32)) as usize : 5.01 -> 5
SAMPLE_BUFFER_SIZE == (SAMPLE_TIME * (SAMPLE_RATE + 1)) \div SAMPLE_RATE

WHITE_COLOR == [r |-> 127, g |-> 127, b |-> 127]
RED_COLOR == [r |-> 127, g |-> 0, b |-> 0]

RETRY_INTERVAL == 5000
RING_LEDS == 24
PORT_COUNT == 6
PORT_LEDS == 5

DOMINATOR == "Corsair Dominator Platinum"
COMMANDER == "Corsair Commander Core"
G502 == "G502 HERO Gaming Mouse"
MSI_BOARD == "MSI X670E GAMING PLUS WIFI (MS-7E16)"
\* stands for every controller name the match has no arm for
OTHER_NAME == "Other"

Names == {DOMINATOR, COMMANDER, G502, MSI_BOARD, OTHER_NAME}
LedCounts == (0..MaxLeds) \cup {RING_LEDS + PORT_COUNT * PORT_LEDS}
\* the non-idle fraction of one measurement interval: idle or fully busy
Samples == {0, 1}

VARIABLES pc, err, connected, last, sleep_ms, tick,
          cpu_sample, cpu_samples, cpu_usage, memory_usage,
          controller_count, controller_id, controller, colors, warned,
          inflight, calls, done, pushed, window0,
          sys, computed, steps, fn_in, fn_out

vars == <<pc, err, connected, last, sleep_ms, tick,
          cpu_sample, cpu_samples, cpu_usage, memory_usage,
          controller_count, controller_id, controller, colors, warned,
          inflight, calls, done, pushed, window0,
          sys, computed, steps, fn_in, fn_out>>

\* ---------------------------------------------------------------- values
NoFraction == [num |-> 0, den |-> 0]
NoController == [name |-> "none", leds |-> 0]
NoSample == 0 - 1
NoCall == [op |-> "none", ok |-> TRUE]
NoMemory == [used |-> 0, total |-> 0]
NoInput == [value |-> NoFraction, start |-> WHITE_COLOR, end |-> WHITE_COLOR,
            size |-> 0]
NoOutput == [fn |-> "none", colors |-> <<>>]

Min(a, b) == IF a < b THEN a ELSE b

RECURSIVE SumSeq(_)
SumSeq(s) == IF s = <<>> THEN 0 ELSE Head(s) + SumSeq(Tail(s))

\* ------------------------------------------------------ color interpolator
\* the value used as it comes
clamp01_None(v) == v

\* f32::clamp(0.0, 1.0) on a fraction
clamp01(v) ==
    IF v.num < 0 THEN [num |-> 0, den |-> v.den]
    ELSE IF v.num > v.den THEN [num |-> v.den, den |-> v.den]
    ELSE v

\* value * end in place of value * (end - start)
lerp_NoDifference(value, start, end) ==
    LET v == clamp01(value)
    IN  [num |-> start * v.den + v.num * end, den |-> v.den]

\* lerp(value, start, end) as the fraction (start*den + num*(end-start)) / den
lerp(value, start, end) ==
    LET v == clamp01(value)
    IN  [num |-> start * v.den + v.num * (end - start), den |-> v.den]

\* f32::round (half away from zero) followed by the saturating cast to u8
round_u8(x) ==
    LET q == IF x.num >= 0
             THEN (2 * x.num + x.den) \div (2 * x.den)
             ELSE 0 - ((2 * (0 - x.num) + x.den) \div (2 * x.den))
    IN  IF q < 0 THEN 0 ELSE IF q > 255 THEN 255 ELSE q

lerp_color(value, start_color, end_color) ==
    [r |-> round_u8(lerp(value, start_color.r, end_color.r)),
     g |-> round_u8(lerp(value, start_color.g, end_color.g)),
     b |-> round_u8(lerp(value, start_color.b, end_color.b))]

\* -------------------------------------------------------- pattern generator
\* the fill position compared with index + 1
generate_gradient_led_colors_OffByOne(value, start_color, end_color, size) ==
    [i \in 1..size |->
        lerp_color(clamp01([num |-> value.num * size - i * value.den,
                            den |-> value.den]),
                   start_color, end_color)]

generate_gradient_led_colors(value, start_color, end_color, size) ==
    [i \in 1..size |->
        lerp_color(clamp01([num |-> value.num * size - (i - 1) * value.den,
                            den |-> value.den]),
                   start_color, end_color)]

\* a fill bar in place of the uniform block
generate_block_led_colors_Gradient(value, start_color, end_color, size) ==
    generate_gradient_led_colors(value, start_color, end_color, size)

generate_block_led_colors(value, start_color, end_color, size) ==
    [i \in 1..size |-> lerp_color(value, start_color, end_color)]

\* ------------------------------------------------------------ sliding window
\* a buffer that grows instead of overwriting its oldest element
RingPush_NoEvict(buf, x) == Append(buf, x)

\* a buffer that starts over when it is full
RingPush_ClearWhenFull(buf, x) ==
    IF Len(buf) < SAMPLE_BUFFER_SIZE THEN Append(buf, x) ELSE <<x>>

\* AllocRingBuffer::push : once full, the oldest element is overwritten
RingPush(buf, x) ==
    IF Len(buf) < SAMPLE_BUFFER_SIZE THEN Append(buf, x)
    ELSE Append(Tail(buf), x)

\* iter().copied().reduce(+).unwrap_or_default() / len
Average(buf) == [num |-> SumSeq(buf), den |-> Len(buf)]

\* ------------------------------------------------------- device dispatcher
RECURSIVE Repeat(_, _)
Repeat(s, n) == IF n = 0 THEN <<>> ELSE s \o Repeat(s, n - 1)

CommanderColors(cpu, led_count) ==
    generate_gradient_led_colors(cpu, WHITE_COLOR, RED_COLOR, RING_LEDS)
      \o Repeat(generate_block_led_colors(cpu, WHITE_COLOR, RED_COLOR, PORT_LEDS),
                PORT_COUNT)

\* the memory bar fed by the CPU value
DispatchColors_CpuForDominator(name, led_count, cpu, mem) ==
    IF name = DOMINATOR
      THEN generate_gradient_led_colors(cpu, WHITE_COLOR, RED_COLOR, led_count)
    ELSE IF name = COMMANDER
      THEN CommanderColors(cpu, led_count)
    ELSE IF name = G502
      THEN generate_block_led_colors(cpu, WHITE_COLOR, RED_COLOR, led_count)
    ELSE <<>>

\* the match on controller.name
DispatchColors(name, led_count, cpu, mem) ==
    IF name = DOMINATOR
      THEN generate_gradient_led_colors(mem, WHITE_COLOR, RED_COLOR, led_count)
    ELSE IF name = COMMANDER
      THEN CommanderColors(cpu, led_count)
    ELSE IF name = G502
      THEN generate_block_led_colors(cpu, WHITE_COLOR, RED_COLOR, led_count)
    ELSE <<>>

DispatchWarning(name) ==
    IF name \in {DOMINATOR, COMMANDER, G502, MSI_BOARD} THEN "none" ELSE "unknown"

\* ---------------------------------------------------------------- initial
LoopInit ==
    /\ pc = "connect"
    /\ err = "none"
    /\ connected = FALSE
    /\ last = NoCall
    /\ sleep_ms = 0
    /\ tick = 0
    /\ cpu_sample = NoSample
    /\ cpu_samples = <<>>
    /\ cpu_usage = NoFraction
    /\ memory_usage = NoFraction
    /\ controller_count = 0
    /\ controller_id = 0
    /\ controller = NoController
    /\ colors = <<>>
    /\ warned = "none"
    /\ inflight = {}
    /\ calls = <<>>
    /\ done = <<>>
    /\ pushed = <<>>
    /\ window0 = <<>>
    /\ sys = NoMemory
    /\ computed = <<>>
    /\ steps = <<>>

Init ==
    /\ LoopInit
    /\ fn_in = NoInput
    /\ fn_out = NoOutput

\* ------------------------------------------------------------------ frames
ghostTick == <<calls, done, window0, computed, steps>>
callGhost == <<calls, done, window0, computed>>
fnVars == <<fn_in, fn_out>>
\* the readings the memory provider can give
MemoryReadings ==
    {m \in [used : 0..MaxMem, total : 1..MaxMem] : m.used <= m.total}

deviceVars == <<controller_count, controller_id, controller, colors, warned>>
metricVars == <<cpu_sample, cpu_usage, memory_usage>>
windowVars == <<cpu_samples, pushed>>

\* the `?` operator: the error leaves main
Propagate(e) == pc' = "error" /\ err' = e

\* bindings of the previous iteration are out of scope
ResetLocals ==
    /\ cpu_sample' = NoSample
    /\ cpu_usage' = NoFraction
    /\ memory_usage' = NoFraction
    /\ controller_count' = 0
    /\ controller_id' = 0
    /\ controller' = NoController
    /\ colors' = <<>>
    /\ warned' = "none"

\* ------------------------------------------------- connect_to_open_rgb_server
\* a strategy that yields no further delay (take(0))
FixedInterval_Exhausted == [some |-> FALSE, millis |-> RETRY_INTERVAL]

\* FixedInterval::from_millis(5000) is an endless iterator of one duration
FixedInterval == [some |-> TRUE, millis |-> RETRY_INTERVAL]

ConnectOk ==
    /\ pc = "connect"
    /\ last' = [op |-> "connect", ok |-> TRUE]
    /\ connected' = TRUE
    /\ pc' = "setup"
    /\ UNCHANGED <<err, sleep_ms, tick, metricVars, deviceVars, windowVars,
                   inflight, ghostTick>>
    /\ UNCHANGED <<sys, fnVars>>

ConnectErr ==
    /\ pc = "connect"
    /\ last' = [op |-> "connect", ok |-> FALSE]
    /\ IF FixedInterval.some
         THEN pc' = "backoff" /\ sleep_ms' = FixedInterval.millis /\ err' = err
         ELSE Propagate("connection") /\ sleep_ms' = sleep_ms
    /\ UNCHANGED <<connected, tick, metricVars, deviceVars, windowVars,
                   inflight, ghostTick>>
    /\ UNCHANGED <<sys, fnVars>>

Backoff ==
    /\ pc = "backoff"
    /\ pc' = "connect"
    /\ sleep_ms' = 0
    /\ UNCHANGED <<err, connected, last, tick, metricVars, deviceVars,
                   windowVars, inflight, ghostTick>>
    /\ UNCHANGED <<sys, fnVars>>

\* main, up to the loop: the ring buffer and the memory probe are created
Setup ==
    /\ pc = "setup"
    /\ cpu_samples' = <<>>
    /\ pc' = "loop"
    /\ UNCHANGED <<err, connected, last, sleep_ms, tick, metricVars,
                   deviceVars, pushed, inflight, ghostTick>>
    /\ \E m \in MemoryReadings : sys' = m
    /\ UNCHANGED fnVars

\* -------------------------------------------------------------- CPU sampling
\* the second snapshot taken right after the first
CpuStartOk_NoSleep ==
    /\ pc = "loop"
    /\ tick < MaxPushes
    /\ tick' = tick + 1
    /\ last' = [op |-> "cpu_now", ok |-> TRUE]
    /\ pc' = "cpu_end"
    /\ ResetLocals
    /\ calls' = <<>> /\ done' = <<>> /\ window0' = cpu_samples
    /\ UNCHANGED <<err, connected, sleep_ms, windowVars, inflight>>
    /\ computed' = <<>> /\ steps' = <<"snapshot">>
    /\ UNCHANGED <<sys, fnVars>>

CpuStartOk ==
    /\ pc = "loop"
    /\ tick < MaxPushes
    /\ tick' = tick + 1
    /\ last' = [op |-> "cpu_now", ok |-> TRUE]
    /\ pc' = "sleep"
    /\ sleep_ms' = SAMPLE_RATE
    /\ ResetLocals
    /\ calls' = <<>> /\ done' = <<>> /\ window0' = cpu_samples
    /\ UNCHANGED <<err, connected, windowVars, inflight>>
    /\ computed' = <<>> /\ steps' = <<"snapshot">>
    /\ UNCHANGED <<sys, fnVars>>

CpuStartErr ==
    /\ pc = "loop"
    /\ tick < MaxPushes
    /\ tick' = tick + 1
    /\ last' = [op |-> "cpu_now", ok |-> FALSE]
    /\ Propagate("sensor")
    /\ ResetLocals
    /\ calls' = <<>> /\ done' = <<>> /\ window0' = cpu_samples
    /\ UNCHANGED <<connected, sleep_ms, windowVars, inflight>>
    /\ computed' = <<>> /\ steps' = <<>>
    /\ UNCHANGED <<sys, fnVars>>

Sleep ==
    /\ pc = "sleep"
    /\ pc' = "cpu_end"
    /\ sleep_ms' = 0
    /\ UNCHANGED <<err, connected, last, tick, metricVars, deviceVars,
                   windowVars, inflight, callGhost>>
    /\ steps' = Append(steps, "sleep")
    /\ UNCHANGED <<sys, fnVars>>

CpuEndOk ==
    /\ pc = "cpu_end"
    /\ \E s \in Samples : cpu_sample' = s
    /\ last' = [op |-> "cpu_now", ok |-> TRUE]
    /\ pc' = "push"
    /\ UNCHANGED <<err, connected, sleep_ms, tick, cpu_usage, memory_usage,
                   deviceVars, windowVars, inflight, callGhost>>
    /\ steps' = Append(steps, "snapshot")
    /\ UNCHANGED <<sys, fnVars>>

\* a failed snapshot replaced by a zero sample
CpuEndErr_ZeroFill ==
    /\ pc = "cpu_end"
    /\ last' = [op |-> "cpu_now", ok |-> FALSE]
    /\ cpu_sample' = 0
    /\ pc' = "push"
    /\ UNCHANGED <<err, connected, sleep_ms, tick, cpu_usage, memory_usage,
                   deviceVars, windowVars, inflight, callGhost>>
    /\ steps' = Append(steps, "snapshot")
    /\ UNCHANGED <<sys, fnVars>>

CpuEndErr ==
    /\ pc = "cpu_end"
    /\ last' = [op |-> "cpu_now", ok |-> FALSE]
    /\ Propagate("sensor")
    /\ UNCHANGED <<connected, sleep_ms, tick, metricVars, deviceVars,
                   windowVars, inflight, ghostTick>>
    /\ UNCHANGED <<sys, fnVars>>

Push ==
    /\ pc = "push"
    /\ cpu_samples' = RingPush(cpu_samples, cpu_sample)
    /\ pushed' = Append(pushed, cpu_sample)
    /\ pc' = "average"
    /\ UNCHANGED <<err, connected, last, sleep_ms, tick, metricVars,
                   deviceVars, inflight, callGhost>>
    /\ steps' = Append(steps, "push")
    /\ UNCHANGED <<sys, fnVars>>

ComputeAverage ==
    /\ pc = "average"
    /\ cpu_usage' = Average(cpu_samples)
    /\ pc' = "memory"
    /\ UNCHANGED <<err, connected, last, sleep_ms, tick, cpu_sample,
                   memory_usage, deviceVars, windowVars, inflight, callGhost>>
    /\ steps' = Append(steps, "average")
    /\ UNCHANGED <<sys, fnVars>>

\* ------------------------------------------------------------ memory sampling
\* the reading blended with the previous one
ReadMemory_Smoothed ==
    /\ pc = "memory"
    /\ \E m \in MemoryReadings :
          /\ sys' = m
          /\ memory_usage' = [num |-> m.used + sys.used,
                              den |-> m.total + sys.total]
    /\ pc' = "count_call"
    /\ UNCHANGED <<err, connected, last, sleep_ms, tick, cpu_sample, cpu_usage,
                   deviceVars, windowVars, inflight, callGhost>>
    /\ steps' = Append(steps, "memory")
    /\ UNCHANGED fnVars

ReadMemory ==
    /\ pc = "memory"
    /\ \E m \in MemoryReadings :
          /\ sys' = m
          /\ memory_usage' = [num |-> m.used, den |-> m.total]
    /\ pc' = "count_call"
    /\ UNCHANGED <<err, connected, last, sleep_ms, tick, cpu_sample, cpu_usage,
                   deviceVars, windowVars, inflight, callGhost>>
    /\ steps' = Append(steps, "memory")
    /\ UNCHANGED fnVars

\* ------------------------------------------------------------ lighting service
CountRequest == [op |-> "get_controller_count", id |-> 0, colors |-> <<>>]
ControllerRequest(id) == [op |-> "get_controller", id |-> id, colors |-> <<>>]
UpdateRequest(id, cs) == [op |-> "update_leds", id |-> id, colors |-> cs]

GetControllerCountCall ==
    /\ pc = "count_call"
    /\ inflight' = inflight \cup {CountRequest}
    /\ pc' = "count_wait"
    /\ UNCHANGED <<err, connected, last, sleep_ms, tick, metricVars,
                   deviceVars, windowVars, ghostTick>>
    /\ UNCHANGED <<sys, fnVars>>

GetControllerCountOk ==
    /\ pc = "count_wait"
    /\ inflight' = inflight \ {CountRequest}
    /\ last' = [op |-> "get_controller_count", ok |-> TRUE]
    /\ \E n \in 0..MaxControllers : controller_count' = n
    /\ controller_id' = 0
    /\ pc' = "for_head"
    /\ UNCHANGED <<err, connected, sleep_ms, tick, metricVars, controller,
                   colors, warned, windowVars, callGhost>>
    /\ steps' = Append(steps, "count")
    /\ UNCHANGED <<sys, fnVars>>

GetControllerCountErr ==
    /\ pc = "count_wait"
    /\ inflight' = inflight \ {CountRequest}
    /\ last' = [op |-> "get_controller_count", ok |-> FALSE]
    /\ Propagate("io")
    /\ UNCHANGED <<connected, sleep_ms, tick, metricVars, deviceVars,
                   windowVars, ghostTick>>
    /\ UNCHANGED <<sys, fnVars>>

\* for controller_id in 0..controller_count
ForHead ==
    /\ pc = "for_head"
    /\ pc' = IF controller_id < controller_count THEN "controller_call" ELSE "yield"
    /\ UNCHANGED <<err, connected, last, sleep_ms, tick, metricVars,
                   deviceVars, windowVars, inflight, ghostTick>>
    /\ UNCHANGED <<sys, fnVars>>

GetControllerCall ==
    /\ pc = "controller_call"
    /\ inflight' = inflight \cup {ControllerRequest(controller_id)}
    /\ pc' = "controller_wait"
    /\ UNCHANGED <<err, connected, last, sleep_ms, tick, metricVars,
                   deviceVars, windowVars, ghostTick>>
    /\ UNCHANGED <<sys, fnVars>>

GetControllerOk ==
    /\ pc = "controller_wait"
    /\ inflight' = inflight \ {ControllerRequest(controller_id)}
    /\ last' = [op |-> "get_controller", ok |-> TRUE]
    /\ \E name \in Names : \E leds \in LedCounts :
          controller' = [name |-> name, leds |-> leds]
    /\ pc' = "check_leds"
    /\ UNCHANGED <<err, connected, sleep_ms, tick, metricVars,
                   controller_count, controller_id, colors, warned,
                   windowVars, ghostTick>>
    /\ UNCHANGED <<sys, fnVars>>

GetControllerErr ==
    /\ pc = "controller_wait"
    /\ inflight' = inflight \ {ControllerRequest(controller_id)}
    /\ last' = [op |-> "get_controller", ok |-> FALSE]
    /\ Propagate("io")
    /\ UNCHANGED <<connected, sleep_ms, tick, metricVars, deviceVars,
                   windowVars, ghostTick>>
    /\ UNCHANGED <<sys, fnVars>>

\* the warning without the `continue`
CheckLeds_NoContinue ==
    /\ pc = "check_leds"
    /\ warned' = IF controller.leds = 0 THEN "no_leds" ELSE warned
    /\ pc' = "dispatch"
    /\ UNCHANGED <<err, connected, last, sleep_ms, tick, metricVars,
                   controller_count, controller_id, controller, colors,
                   windowVars, inflight, ghostTick>>
    /\ UNCHANGED <<sys, fnVars>>

\* if led_count == 0 { warn!(..); continue; }
CheckLeds ==
    /\ pc = "check_leds"
    /\ IF controller.leds = 0
         THEN warned' = "no_leds" /\ pc' = "for_next"
         ELSE warned' = warned /\ pc' = "dispatch"
    /\ UNCHANGED <<err, connected, last, sleep_ms, tick, metricVars,
                   controller_count, controller_id, controller, colors,
                   windowVars, inflight, ghostTick>>
    /\ UNCHANGED <<sys, fnVars>>

Dispatch ==
    /\ pc = "dispatch"
    /\ colors' = DispatchColors(controller.name, controller.leds,
                                cpu_usage, memory_usage)
    /\ warned' = DispatchWarning(controller.name)
    /\ pc' = "update_call"
    /\ UNCHANGED <<err, connected, last, sleep_ms, tick, metricVars,
                   controller_count, controller_id, controller,
                   windowVars, inflight, calls, done, window0, steps>>
    /\ computed' = Append(computed, controller_id)
    /\ UNCHANGED <<sys, fnVars>>

\* the update spawned instead of awaited
UpdateLedsCall_NoAwait ==
    /\ pc = "update_call"
    /\ inflight' = inflight \cup {UpdateRequest(controller_id, colors)}
    /\ calls' = Append(calls, controller_id)
    /\ pc' = "for_next"
    /\ UNCHANGED <<err, connected, last, sleep_ms, tick, metricVars,
                   deviceVars, windowVars, done, window0, computed>>
    /\ steps' = Append(steps, "update")
    /\ UNCHANGED <<sys, fnVars>>

\* an empty list is not sent
UpdateLedsCall_SkipEmpty ==
    /\ pc = "update_call"
    /\ IF colors = <<>>
         THEN /\ pc' = "for_next"
              /\ UNCHANGED <<inflight, calls, steps>>
         ELSE /\ inflight' = inflight \cup {UpdateRequest(controller_id, colors)}
              /\ calls' = Append(calls, controller_id)
              /\ steps' = Append(steps, "update")
              /\ pc' = "update_wait"
    /\ UNCHANGED <<err, connected, last, sleep_ms, tick, metricVars,
                   deviceVars, windowVars, done, window0, computed>>
    /\ UNCHANGED <<sys, fnVars>>

UpdateLedsCall ==
    /\ pc = "update_call"
    /\ inflight' = inflight \cup {UpdateRequest(controller_id, colors)}
    /\ calls' = Append(calls, controller_id)
    /\ pc' = "update_wait"
    /\ UNCHANGED <<err, connected, last, sleep_ms, tick, metricVars,
                   deviceVars, windowVars, done, window0, computed>>
    /\ steps' = Append(steps, "update")
    /\ UNCHANGED <<sys, fnVars>>

UpdateLedsOk ==
    /\ pc = "update_wait"
    /\ inflight' = inflight \ {UpdateRequest(controller_id, colors)}
    /\ done' = Append(done, controller_id)
    /\ last' = [op |-> "update_leds", ok |-> TRUE]
    /\ pc' = "for_next"
    /\ UNCHANGED <<err, connected, sleep_ms, tick, metricVars, deviceVars,
                   windowVars, calls, window0, computed, steps>>
    /\ UNCHANGED <<sys, fnVars>>

\* the error of update_leds logged and dropped
UpdateLedsErr_Continue ==
    /\ pc = "update_wait"
    /\ inflight' = inflight \ {UpdateRequest(controller_id, colors)}
    /\ done' = Append(done, controller_id)
    /\ last' = [op |-> "update_leds", ok |-> FALSE]
    /\ pc' = "for_next"
    /\ UNCHANGED <<err, connected, sleep_ms, tick, metricVars, deviceVars,
                   windowVars, calls, window0, computed, steps>>
    /\ UNCHANGED <<sys, fnVars>>

UpdateLedsErr ==
    /\ pc = "update_wait"
    /\ inflight' = inflight \ {UpdateRequest(controller_id, colors)}
    /\ done' = Append(done, controller_id)
    /\ last' = [op |-> "update_leds", ok |-> FALSE]
    /\ Propagate("io")
    /\ UNCHANGED <<connected, sleep_ms, tick, metricVars, deviceVars,
                   windowVars, calls, window0, computed, steps>>
    /\ UNCHANGED <<sys, fnVars>>

\* end of the loop body: the next controller_id; the body's bindings end
ForNext ==
    /\ pc = "for_next"
    /\ controller_id' = controller_id + 1
    /\ controller' = NoController
    /\ colors' = <<>>
    /\ warned' = "none"
    /\ pc' = "for_head"
    /\ UNCHANGED <<err, connected, last, sleep_ms, tick, metricVars,
                   controller_count, windowVars, inflight, ghostTick>>
    /\ UNCHANGED <<sys, fnVars>>

\* tokio::task::yield_now().await, then the next iteration
Yield ==
    /\ pc = "yield"
    /\ pc' = "loop"
    /\ UNCHANGED <<err, connected, last, sleep_ms, tick, metricVars,
                   deviceVars, windowVars, inflight, ghostTick>>
    /\ UNCHANGED <<sys, fnVars>>

Next ==
    \/ ConnectOk \/ ConnectErr \/ Backoff \/ Setup
    \/ CpuStartOk \/ CpuStartErr \/ Sleep \/ CpuEndOk \/ CpuEndErr
    \/ Push \/ ComputeAverage \/ ReadMemory
    \/ GetControllerCountCall \/ GetControllerCountOk \/ GetControllerCountErr
    \/ ForHead
    \/ GetControllerCall \/ GetControllerOk \/ GetControllerErr
    \/ CheckLeds \/ Dispatch
    \/ UpdateLedsCall \/ UpdateLedsOk \/ UpdateLedsErr
    \/ ForNext \/ Yield

Spec == Init /\ [][Next]_vars

\* the runtime runs the main task up to its next await
FairSpec == Spec /\ WF_vars(Setup)

TypeOK ==
    /\ pc \in {"connect", "backoff", "setup", "loop", "sleep", "cpu_end",
               "push", "average", "memory", "count_call", "count_wait",
               "for_head", "controller_call", "controller_wait", "check_leds",
               "dispatch", "update_call", "update_wait", "for_next", "yield",
               "error"}
    /\ err \in {"none", "connection", "sensor", "io"}
    /\ connected \in BOOLEAN
    /\ tick \in 0..MaxPushes
    /\ Len(cpu_samples) <= SAMPLE_BUFFER_SIZE
    /\ controller_id \in 0..MaxControllers
    /\ \A i \in 1..Len(colors) : colors[i].r \in 0..255 /\ colors[i].g \in 0..255
                                  /\ colors[i].b \in 0..255

\* ------------------------------------------------- the color functions alone
\* The color interpolator and the two layouts are pure: FnSpec applies each
\* of them once to an input drawn from the sets below.
FnChannels == {0, 127, 255}
FnColors == [r : FnChannels, g : FnChannels, b : FnChannels]
\* fractions from -1 to 2 in steps of 1/den, and -5 and 5
FnValues ==
    UNION {{[num |-> n, den |-> d] :
               n \in ((0 - d)..(2 * d)) \cup {0 - 5 * d, 5 * d}} :
           d \in 1..MaxDen}
FnInputs == [value : FnValues, start : FnColors, end : FnColors,
             size : 0..MaxSize]

loopVars == <<pc, err, connected, last, sleep_ms, tick,
              cpu_sample, cpu_samples, cpu_usage, memory_usage,
              controller_count, controller_id, controller, colors, warned,
              inflight, calls, done, pushed, window0, sys, computed, steps>>

FnInit ==
    /\ LoopInit
    /\ fn_in \in FnInputs
    /\ fn_out = NoOutput

CallLerpColor ==
    /\ fn_out = NoOutput
    /\ fn_out' = [fn |-> "lerp_color",
                  colors |-> <<lerp_color(fn_in.value, fn_in.start, fn_in.end)>>]
    /\ UNCHANGED <<loopVars, fn_in>>

CallGradient ==
    /\ fn_out = NoOutput
    /\ fn_out' = [fn |-> "gradient",
                  colors |-> generate_gradient_led_colors(
                                 fn_in.value, fn_in.start, fn_in.end, fn_in.size)]
    /\ UNCHANGED <<loopVars, fn_in>>

CallBlock ==
    /\ fn_out = NoOutput
    /\ fn_out' = [fn |-> "block",
                  colors |-> generate_block_led_colors(
                                 fn_in.value, fn_in.start, fn_in.end, fn_in.size)]
    /\ UNCHANGED <<loopVars, fn_in>>

FnNext == CallLerpColor \/ CallGradient \/ CallBlock

FnSpec == FnInit /\ [][FnNext]_vars

\* ------------------------------------------------------------------ helpers
Range(s) == {s[i] : i \in 1..Len(s)}
IsPrefix(s, t) == Len(s) <= Len(t) /\ SubSeq(t, 1, Len(s)) = s
Ascending(s) == \A i \in 1..Len(s) : \A j \in 1..Len(s) : i < j => s[i] < s[j]
UpdatesInFlight == {r \in inflight : r.op = "update_leds"}
ServiceOps == {"get_controller_count", "get_controller", "update_leds"}
MeasuringPcs == {"loop", "sleep", "cpu_end", "push", "average", "memory"}
RecipeNames == {DOMINATOR, COMMANDER, G502}

\* ------------------------------------------------------------------- claims

\* C1: once the smoothed CPU value of a tick is computed, after k >= 1 pushes,
\* it is the arithmetic mean of exactly the last min(k, N) pushed samples,
\* N the capacity of the window; evicted samples do not contribute.
C1_MeanOfLastN ==
    cpu_usage # NoFraction =>
        LET k == Len(pushed)
            m == Min(k, SAMPLE_BUFFER_SIZE)
            recent == SubSeq(pushed, k - m + 1, k)
        IN  /\ k >= 1
            /\ cpu_usage.den > 0
            /\ cpu_usage.num * m = SumSeq(recent) * cpu_usage.den

\* an average computed after a non-zero sample has been evicted
C1_Witness ==
    /\ cpu_usage # NoFraction
    /\ Len(pushed) > SAMPLE_BUFFER_SIZE
    /\ pushed[1] # 0

\* C2: the capacity of the window is sample_time / sample_interval
\* (5 s / 500 ms = 10), so a full window spans the 5 s horizon.
C2_Claim ==
    Len(cpu_samples) = SAMPLE_BUFFER_SIZE =>
        /\ Len(cpu_samples) = (SAMPLE_TIME * 1000) \div SAMPLE_RATE
        /\ Len(cpu_samples) * SAMPLE_RATE = SAMPLE_TIME * 1000

\* C3: for a device named in the recipe table with a LED count above 0, the
\* color list passed to update_leds is as long as the reported LED count.
C3_Claim ==
    \A r \in UpdatesInFlight :
        (controller.name \in RecipeNames /\ controller.leds > 0)
            => Len(r.colors) = controller.leds

\* C4: a device reporting no LEDs gets a warning and no update_leds call in
\* the tick, whatever its name, and the loop goes on to the next device.
C4_ZeroLedsSkipped ==
    /\ [](/\ (pc \in {"dispatch", "update_call", "update_wait"}
                => controller.leds > 0)
          /\ (\A r \in UpdatesInFlight :
                r.id = controller_id /\ controller.leds > 0)
          /\ (\A id \in Range(calls) : id <= controller_id)
          /\ ((pc = "for_next" /\ controller.leds = 0)
                => /\ warned = "no_leds"
                   /\ err = "none"
                   /\ controller_id \notin Range(calls)))
    /\ [][pc = "for_next"
            => /\ pc' = "for_head"
               /\ controller_id' = controller_id + 1
               /\ calls' = calls]_vars

\* the second device of a tick reports no LEDs after the first was updated
C4_Witness ==
    /\ pc = "for_next"
    /\ controller = [name |-> COMMANDER, leds |-> 0]
    /\ controller_id = 1
    /\ calls = <<0>>

\* C5: handling a device whose name is not in the recipe table gives an
\* empty color list and a warning and never ends in an error.
C5_Claim ==
    controller.name = OTHER_NAME =>
        /\ pc # "error"
        /\ (pc \in {"update_call", "update_wait"}
              => colors = <<>> /\ warned = "unknown")

\* C6: no update_leds call is issued for a device with an unknown or an
\* excluded name.
C6_Claim ==
    \A r \in UpdatesInFlight : controller.name \notin {OTHER_NAME, MSI_BOARD}

\* C7: at most one update_leds call is in flight, the calls return in the
\* order they were issued, and no CPU measurement runs while a call of the
\* previous iteration is outstanding.
C7_NoOverlap ==
    /\ Cardinality(inflight) <= 1
    /\ Ascending(calls)
    /\ IsPrefix(done, calls)
    /\ Len(calls) - Len(done) = Cardinality(UpdatesInFlight)
    /\ (pc \in MeasuringPcs \cup {"yield"} => inflight = {} /\ done = calls)

\* an iteration about to start after both updates of the previous completed
C7_Witness ==
    /\ pc = "loop"
    /\ tick >= 1
    /\ done = <<0, 1>>

\* C8: a failed CPU snapshot aborts the tick with the error: nothing is
\* pushed, the window is as it was at the start of the tick, and no
\* update_leds call is made in the tick.
C8_SensorFailureAborts ==
    (last.op = "cpu_now" /\ ~last.ok) =>
        /\ pc = "error"
        /\ err = "sensor"
        /\ cpu_samples = window0
        /\ Len(pushed) = tick - 1
        /\ calls = <<>>
        /\ inflight = {}

\* a snapshot fails in a tick that started with samples in the window
C8_Witness ==
    /\ last.op = "cpu_now"
    /\ ~last.ok
    /\ cpu_samples # <<>>

\* C9: in the loop a failed lighting-service call ends the program with that
\* error; nothing happens afterwards (no reconnect, sample or update).
C9_ServiceFailureFatal ==
    /\ []((last.op \in ServiceOps /\ ~last.ok)
            => pc = "error" /\ err = "io" /\ inflight = {})
    /\ [][pc # "error"]_vars

\* update_leds fails for the first of two devices
C9_Witness ==
    /\ pc = "error"
    /\ last = [op |-> "update_leds", ok |-> FALSE]
    /\ controller_id = 0
    /\ controller_count = 2
    /\ calls = <<0>>

\* C10: a failed connect attempt is followed by a wait of the fixed interval
\* and another attempt, never by termination; nothing is sampled or sent
\* before a connect succeeded; after a success the main loop is entered.
C10_UnboundedRetry ==
    /\ []((~connected /\ last.op = "connect" /\ ~last.ok)
            => /\ pc \in {"backoff", "connect"}
               /\ err = "none")
    /\ [](pc = "backoff" => sleep_ms = RETRY_INTERVAL)
    /\ [][pc = "backoff" => pc' = "connect"]_vars
    /\ [](~connected
            => tick = 0 /\ pushed = <<>> /\ calls = <<>> /\ inflight = {})
    /\ (connected ~> (pc \notin {"connect", "backoff", "setup"}))

\* a new attempt is due after a failed one
C10_Witness ==
    /\ pc = "connect"
    /\ last = [op |-> "connect", ok |-> FALSE]

\* C11: lerp_color(0, s, e) is s and lerp_color(1, s, e) is e, channel by
\* channel.
C11_LerpEndpoints ==
    fn_out.fn = "lerp_color" =>
        /\ (fn_in.value.num = 0 => fn_out.colors[1] = fn_in.start)
        /\ (fn_in.value.num = fn_in.value.den => fn_out.colors[1] = fn_in.end)

\* lerp_color applied at 1 to two colors that differ in every channel
C11_Witness ==
    /\ fn_out.fn = "lerp_color"
    /\ fn_in.value = [num |-> 2, den |-> 2]
    /\ fn_in.start = [r |-> 127, g |-> 255, b |-> 0]
    /\ fn_in.end = [r |-> 255, g |-> 0, b |-> 127]
    /\ fn_out.colors = <<fn_in.end>>

Between(x, a, b) == (a <= x /\ x <= b) \/ (b <= x /\ x <= a)

\* C12: for a value below 0 lerp_color gives what it gives at 0, for a value
\* above 1 what it gives at 1; every output channel lies between the
\* channels of the two colors.
C12_LerpClamped ==
    fn_out.fn = "lerp_color" =>
        LET v == fn_in.value
            s == fn_in.start
            e == fn_in.end
            c == fn_out.colors[1]
        IN  /\ (v.num < 0 => c = lerp_color([num |-> 0, den |-> 1], s, e) /\ c = s)
            /\ (v.num > v.den
                  => c = lerp_color([num |-> 1, den |-> 1], s, e) /\ c = e)
            /\ Between(c.r, s.r, e.r)
            /\ Between(c.g, s.g, e.g)
            /\ Between(c.b, s.b, e.b)

\* lerp_color applied at -5 to two different colors
C12_Witness ==
    /\ fn_out.fn = "lerp_color"
    /\ fn_in.value = [num |-> 0 - 5, den |-> 1]
    /\ fn_in.start = WHITE_COLOR
    /\ fn_in.end = RED_COLOR
    /\ fn_out.colors = <<WHITE_COLOR>>

\* C13: for a value in [0,1] the gradient layout gives `size` colors; the
\* LED with index i is the end color when i + 1 <= value * size, the start
\* color when i >= value * size, and at most one LED is a blend of the two;
\* value 0 gives all start, value 1 all end.
C13_GradientFillBar ==
    (fn_out.fn = "gradient" /\ 0 <= fn_in.value.num
       /\ fn_in.value.num <= fn_in.value.den) =>
        LET v == fn_in.value
            n == fn_in.size
            out == fn_out.colors
            fill == v.num * n
        IN  /\ Len(out) = n
            /\ \A i \in 0..(n - 1) :
                  /\ ((i + 1) * v.den <= fill => out[i + 1] = fn_in.end)
                  /\ (i * v.den >= fill => out[i + 1] = fn_in.start)
                  /\ ((i * v.den < fill /\ fill < (i + 1) * v.den)
                        => out[i + 1] = lerp_color(
                               [num |-> fill - i * v.den, den |-> v.den],
                               fn_in.start, fn_in.end))
            /\ Cardinality({i \in 1..n : out[i] \notin {fn_in.start, fn_in.end}})
                 <= 1
            /\ (v.num = 0 => \A i \in 1..n : out[i] = fn_in.start)
            /\ (v.num = v.den => \A i \in 1..n : out[i] = fn_in.end)

\* size 5 at value 1/2: two end colors, the blend at 1/2, two start colors
C13_Witness ==
    /\ fn_out.fn = "gradient"
    /\ fn_in = [value |-> [num |-> 1, den |-> 2], start |-> WHITE_COLOR,
                end |-> RED_COLOR, size |-> 5]
    /\ fn_out.colors = <<RED_COLOR, RED_COLOR, [r |-> 127, g |-> 64, b |-> 64],
                         WHITE_COLOR, WHITE_COLOR>>

\* C14: the block layout gives exactly `size` colors, each of them
\* lerp_color(value, start, end), for every size >= 0 and every value.
C14_BlockUniform ==
    fn_out.fn = "block" =>
        /\ Len(fn_out.colors) = fn_in.size
        /\ \A i \in 1..Len(fn_out.colors) :
              fn_out.colors[i] = lerp_color(fn_in.value, fn_in.start, fn_in.end)

\* a block of 5 at value 1/2, where a fill bar would not be uniform
C14_Witness ==
    /\ fn_out.fn = "block"
    /\ fn_in = [value |-> [num |-> 1, den |-> 2], start |-> WHITE_COLOR,
                end |-> RED_COLOR, size |-> 5]
    /\ fn_out.colors = [i \in 1..5 |-> [r |-> 127, g |-> 64, b |-> 64]]

TickOrder ==
    <<"snapshot", "sleep", "snapshot", "push", "average", "memory", "count">>

\* C16: an iteration takes its steps in the order first snapshot, the one
\* suspension of SAMPLE_RATE ms, second snapshot, one push, the average, the
\* memory read and then the device updates; no update precedes the push and
\* the average of its tick.
C16_TickOrder ==
    /\ IsPrefix(SubSeq(steps, 1, Min(Len(steps), Len(TickOrder))), TickOrder)
    /\ \A i \in (Len(TickOrder) + 1)..Len(steps) : steps[i] = "update"
    /\ (Len(steps) >= Len(TickOrder)
          => Len(steps) = Len(TickOrder) + Len(calls))
    /\ (pc = "sleep" => sleep_ms = SAMPLE_RATE /\ steps = <<"snapshot">>)
    /\ (pc \in {"cpu_end", "push", "average", "memory", "count_call",
                "count_wait", "for_head", "controller_call", "controller_wait",
                "check_leds", "dispatch", "update_call", "update_wait",
                "for_next", "yield"}
          => sleep_ms = 0 /\ Len(steps) >= 2)
    /\ (calls # <<>>
          => /\ Len(steps) > Len(TickOrder)
             /\ Len(pushed) = tick
             /\ cpu_usage = Average(cpu_samples))
    /\ (pc = "yield" => Len(steps) >= Len(TickOrder))

\* an iteration that ends after two updates
C16_Witness ==
    /\ pc = "yield"
    /\ steps = TickOrder \o <<"update", "update">>

\* C17: the memory fraction of a tick is used / total as read in that tick;
\* the Dominator bar is drawn from it; reading memory changes neither the
\* window nor the smoothed CPU value, and the window holds CPU samples only.
C17_MemoryPointSample ==
    /\ [](memory_usage # NoFraction
            => memory_usage = [num |-> sys.used, den |-> sys.total])
    /\ [](\A r \in UpdatesInFlight :
            controller.name = DOMINATOR
              => r.colors = generate_gradient_led_colors(
                     [num |-> sys.used, den |-> sys.total],
                     WHITE_COLOR, RED_COLOR, controller.leds))
    /\ [](cpu_samples = SubSeq(pushed, Len(pushed) - Len(cpu_samples) + 1,
                               Len(pushed)))
    /\ [][pc = "memory"
            => /\ cpu_samples' = cpu_samples
               /\ pushed' = pushed
               /\ cpu_usage' = cpu_usage]_vars

\* a half-full memory bar sent in the second tick
C17_Witness ==
    /\ pc = "update_wait"
    /\ tick = 2
    /\ controller = [name |-> DOMINATOR, leds |-> 1]
    /\ sys = [used |-> 1, total |-> 2]
    /\ colors = <<[r |-> 127, g |-> 64, b |-> 64]>>

\* C18: the window never holds more than its capacity, holds min(k, N)
\* samples after the k-th push, and is not empty when the average is taken.
C18_WindowLength ==
    /\ Len(cpu_samples) <= SAMPLE_BUFFER_SIZE
    /\ Len(cpu_samples) = Min(Len(pushed), SAMPLE_BUFFER_SIZE)
    /\ (pc = "average" => Len(cpu_samples) >= 1)
    /\ (cpu_usage # NoFraction => cpu_usage.den >= 1)

\* the average is about to be taken right after the first eviction
C18_Witness ==
    /\ pc = "average"
    /\ Len(pushed) = SAMPLE_BUFFER_SIZE + 1
    /\ Len(cpu_samples) = SAMPLE_BUFFER_SIZE

SameFraction(a, b) == a.num * b.den = b.num * a.den
\* the two ends of a metric, and every way to write a metric's value
Extremes == {[num |-> 0, den |-> 1], [num |-> 1, den |-> 1]}
CpuFractions ==
    {f \in [num : 0..SAMPLE_BUFFER_SIZE, den : 1..SAMPLE_BUFFER_SIZE] :
        f.num <= f.den}
MemFractions == {[num |-> m.used, den |-> m.total] : m \in MemoryReadings}

\* C19: the list sent to the Dominator is the same whether the CPU value is
\* the tick's, 0 or 1, and for every memory reading of the same fraction; the
\* lists sent to the Commander Core and the G502 are the same whether the
\* memory fraction is the tick's, 0 or 1, and for every CPU average of the
\* same fraction.
C19_MetricRouting ==
    \A r \in UpdatesInFlight :
        LET name == controller.name
            leds == controller.leds
        IN  /\ (name = DOMINATOR
                  => /\ \A cpu \in Extremes :
                          DispatchColors(name, leds, cpu, memory_usage)
                            = r.colors
                     /\ \A mem \in MemFractions :
                          SameFraction(mem, memory_usage)
                            => DispatchColors(name, leds, cpu_usage, mem)
                                 = r.colors)
            /\ (name \in {COMMANDER, G502}
                  => /\ \A mem \in Extremes :
                          DispatchColors(name, leds, cpu_usage, mem)
                            = r.colors
                     /\ \A cpu \in CpuFractions :
                          SameFraction(cpu, cpu_usage)
                            => DispatchColors(name, leds, cpu, memory_usage)
                                 = r.colors)

\* the Dominator is updated while CPU and memory differ
C19_Witness ==
    /\ pc = "update_wait"
    /\ controller = [name |-> DOMINATOR, leds |-> 1]
    /\ cpu_usage = [num |-> 2, den |-> 2]
    /\ memory_usage = [num |-> 0, den |-> 2]
    /\ colors = <<WHITE_COLOR>>

====
